---------------------------- MODULE Spec2Model ----------------------------
(***************************************************************************)
(* A model of the on-call schedule override form of the Grafana plugin:    *)
(*                                                                         *)
(*   - components/UserGroups/UserGroups.tsx: the ordered list of user      *)
(*     groups with its add-user, add-group and delete-user handlers;       *)
(*   - containers/RotationForm/ScheduleOverrideForm.tsx: the form state    *)
(*     (user groups, shift start, shift end), the params memo built from   *)
(*     it, the debounced preview request and the isOpen flag.              *)
(*                                                                         *)
(* The specifications share the variables.  EngineSpec drives the          *)
(* UserGroups component alone, from an arbitrary value prop; EditSpec      *)
(* drives it from the list the form starts with; SortSpec applies one      *)
(* reorder to an arbitrary list; HeapSpec runs the handlers over the       *)
(* group arrays kept by reference.  Spec drives one mounted                *)
(* ScheduleOverrideForm with a clock, the debounce timer and the preview   *)
(* requests in flight; LiveSpec adds a fair scheduler; PersistSpec adds    *)
(* the Create/Update and delete buttons and their store calls.             *)
(***************************************************************************)
EXTENDS Integers, Sequences, FiniteSets

VARIABLES
    \* UserGroups.tsx
    userGroups,        \* the value prop / the form's userGroups state
    isMultipleGroups,  \* the isMultipleGroups prop
    lastOp,            \* history: the last handler call of the component
    prevOp,            \* history: the handler call before lastOp
    \* ScheduleOverrideForm.tsx
    mounted,           \* the mount effects have run
    shiftId,           \* the shiftId prop: "new" or the id of a stored shift
    shiftStart,        \* state shiftStart
    shiftEnd,          \* state shiftEnd
    isOpen,            \* state isOpen
    shift,             \* store.scheduleStore.shifts[shiftId], or NoShift
    now,               \* the clock, in milliseconds since mount
    timer,             \* the pending debounce timer, or NoTimer
    changes,           \* history: when each params object was produced
    requests,          \* every preview request issued, with its answer
    displayed,         \* history: the request whose .then ran last, or 0
    calls,             \* every call of the store's create, update and delete
    \* The arrays behind the group lists
    heap,              \* the group arrays allocated so far, by reference
    current,           \* the value prop as an array of references
    captured           \* history: every value handed out, as it then read

engineVars == <<userGroups, isMultipleGroups, lastOp, prevOp>>

formVars == <<mounted, shiftId, shiftStart, shiftEnd, isOpen, shift, now,
              timer, changes, requests, displayed>>

sideVars == <<calls, heap, current, captured>>

vars == <<engineVars, formVars, sideVars>>

-----------------------------------------------------------------------------
(* Bounds *)

\* The user ids offered by the RemoteSelect.
Users == {"u1", "u2", "u3"}

\* The most members a group list of EngineSpec holds.
MaxMembers == 3

\* The most groups a group list of EngineSpec holds.
MaxGroups == 2

\* The user ids offered to the form of Spec.
FormUsers == {"u1"}

\* The most members the form of Spec holds.
MaxFormMembers == 1

\* How many params objects the form of Spec produces at most.
MaxChanges == 3

\* How many steps of the clock Spec takes at most.
MaxTicks == 9

\* The days after shiftMoment the date pickers offer.
MaxDays == 0

\* The most group arrays allocated in one run of HeapSpec.
MaxArrays == 6

\* The most onChange calls in one run of HeapSpec.
MaxOps == 3

\* The most clicks on Create, Update or delete in one run of PersistSpec.
MaxSubmits == 1

-----------------------------------------------------------------------------
(* Sequences *)

RemoveAt(s, j) == SubSeq(s, 1, j - 1) \o SubSeq(s, j + 1, Len(s))

RECURSIVE Concat(_)
Concat(value) ==
    IF Len(value) = 0 THEN <<>> ELSE Head(value) \o Concat(Tail(value))

RECURSIVE SeqsUpTo(_, _)
SeqsUpTo(S, n) ==
    IF n = 0 THEN {<<>>}
    ELSE LET shorter == SeqsUpTo(S, n - 1)
         IN shorter \cup {Append(s, x) : s \in shorter, x \in S}

\* The group lists of at most g groups and m members, empty groups included.
RECURSIVE GroupListsOf(_, _)
GroupListsOf(g, m) ==
    IF g = 0 THEN {<<>>}
    ELSE LET shorter == GroupListsOf(g - 1, m)
             fitting == {p \in shorter \X SeqsUpTo(Users, m) :
                            Len(Concat(p[1])) + Len(p[2]) <= m}
         IN shorter \cup {Append(p[1], p[2]) : p \in fitting}

\* Every group list within the bounds.
GroupLists == GroupListsOf(MaxGroups, MaxMembers)

-----------------------------------------------------------------------------
(* UserGroups.tsx: the handlers.  Each returns the onChange call it makes: *)
(* called says whether onChange ran, value is what it was given (the old   *)
(* value when it did not run).                                             *)

NoChange(value) == [called |-> FALSE, value |-> value]

Change(value) == [called |-> TRUE, value |-> value]

\* (group) => group.length
HasLength(group) == Len(group) # 0

\* newGroups.filter((group) => group.length)
FilterEmpty(groups) == SelectSeq(groups, HasLength)

\* handleAddUserGroup: onChange([...value, []])
handleAddUserGroup(value) == Change(Append(value, <<>>))

\* The pk values the select can hand over; "" stands for every falsy pk.
Falsy(pk) == pk = ""

\* A slip: a pk the list already holds is not added again.
AddUnlessPresent(value, pk) ==
    IF Falsy(pk) \/ \E i \in 1..Len(value) : \E j \in 1..Len(value[i]) : value[i][j] = pk
    THEN NoChange(value)
    ELSE LET newGroups == IF Len(value) = 0 THEN <<<<>>>> ELSE value
         IN Change([newGroups EXCEPT ![Len(newGroups)] = Append(@, pk)])

\* handleUserAdd: push pk onto the last group, creating it when there is none.
handleUserAdd(value, pk) ==
    IF Falsy(pk) THEN NoChange(value)
    ELSE LET newGroups == IF Len(value) = 0 THEN <<<<>>>> ELSE value
         IN Change([newGroups EXCEPT ![Len(newGroups)] = Append(@, pk)])

\* handleDeleteUser: the two nested loops.  k is the running flat index, i
\* and j the loop indices (counted from 1 here, from 0 in the source).
RECURSIVE DeleteOuterLoop(_, _, _, _)
RECURSIVE DeleteInnerLoop(_, _, _, _, _)
DeleteOuterLoop(value, index, i, k) ==
    IF i > Len(value) THEN NoChange(value)
    ELSE DeleteInnerLoop(value, index, i, 1, k + 1)

DeleteInnerLoop(value, index, i, j, k) ==
    IF j > Len(value[i]) THEN DeleteOuterLoop(value, index, i + 1, k)
    ELSE IF k + 1 = index
         THEN Change(FilterEmpty([value EXCEPT ![i] = RemoveAt(@, j)]))
         ELSE DeleteInnerLoop(value, index, i, j + 1, k + 1)

\* A slip: the filter compares items, not positions
\* (filter((item) => item !== users[j])).
DeleteEveryEqualItem(value, index) ==
    LET found == DeleteOuterLoop(value, index, 1, -1)
    IN IF ~found.called THEN found
       ELSE LET at == CHOOSE p \in (1..Len(value)) \X (1..MaxMembers + 1) :
                          /\ p[2] <= Len(value[p[1]])
                          /\ found.value = FilterEmpty(
                                 [value EXCEPT ![p[1]] = RemoveAt(@, p[2])])
                IsKept(x) == x # value[at[1]][at[2]]
            IN Change(FilterEmpty(
                   [value EXCEPT ![at[1]] = SelectSeq(@, IsKept)]))

\* A slip: onChange(newGroups), the groups left empty are kept.
DeleteKeepsEmptyGroups(value, index) ==
    LET found == DeleteOuterLoop(value, index, 1, -1)
    IN IF ~found.called THEN found
       ELSE LET at == CHOOSE p \in (1..Len(value)) \X (1..MaxMembers + 1) :
                          /\ p[2] <= Len(value[p[1]])
                          /\ found.value = FilterEmpty(
                                 [value EXCEPT ![p[1]] = RemoveAt(@, p[2])])
            IN Change([value EXCEPT ![at[1]] = RemoveAt(@, at[2])])

\* A slip: onChange runs after the loops whether or not the index was found.
DeleteAlwaysEmits(value, index) ==
    LET found == DeleteOuterLoop(value, index, 1, -1)
    IN IF found.called THEN found ELSE Change(FilterEmpty(value))

handleDeleteUser(value, index) == DeleteOuterLoop(value, index, 1, -1)

-----------------------------------------------------------------------------
(* The flat numbering the handlers are called with: for each group in      *)
(* order, one separator position followed by one position per member.      *)

RECURSIVE FlatLength(_)
FlatLength(value) ==
    IF Len(value) = 0 THEN 0 ELSE 1 + Len(Head(value)) + FlatLength(Tail(value))

\* The flat index of member j of group i.
FlatIndexOf(value, i, j) == FlatLength(SubSeq(value, 1, i - 1)) + j

IsMemberIndex(value, index) ==
    \E i \in 1..Len(value) : \E j \in 1..Len(value[i]) :
        FlatIndexOf(value, i, j) = index

\* The flat indices the handlers may be called with: every position of the
\* flattening, one before it and two past it.
FlatIndices(value) == -1 .. FlatLength(value) + 1

-----------------------------------------------------------------------------
(* EngineSpec: the UserGroups component on its own *)

NoOp ==
    [op |-> "none", pk |-> "", index |-> -1, to |-> -1, before |-> <<>>,
     called |-> FALSE, after |-> <<>>]

Record(op, pk, index, before, result) ==
    [op |-> op, pk |-> pk, index |-> index, to |-> -1, before |-> before,
     called |-> result.called, after |-> result.value]

\* No array has been allocated and the store has not been called.
SideIdle ==
    /\ calls = <<>> /\ heap = <<>> /\ current = <<>> /\ captured = <<>>

FormIdle ==
    /\ mounted = FALSE /\ shiftId = "new" /\ shiftStart = 0 /\ shiftEnd = 0
    /\ isOpen = FALSE /\ shift = [gen |-> 0] /\ now = 0 /\ timer = <<>>
    /\ changes = <<>> /\ requests = <<>> /\ displayed = 0

EngineInit ==
    /\ userGroups \in GroupLists
    /\ isMultipleGroups \in BOOLEAN
    /\ lastOp = NoOp
    /\ prevOp = NoOp
    /\ FormIdle
    /\ SideIdle

Apply(op, pk, index, result) ==
    /\ userGroups' = result.value
    /\ lastOp' = Record(op, pk, index, userGroups, result)
    /\ prevOp' = lastOp
    /\ UNCHANGED <<isMultipleGroups, formVars, sideVars>>

\* The RemoteSelect's onChange.
UserAdd(pk) ==
    /\ Len(Concat(userGroups)) < MaxMembers
    /\ Apply("add", pk, -1, handleUserAdd(userGroups, pk))

\* A click on a trash icon, or a call with any other index.
DeleteUser(index) ==
    Apply("delete", "", index, handleDeleteUser(userGroups, index))

\* Not the list: the row is rendered whenever isMultipleGroups.
AddGroupAlwaysShown(value, multiple) == multiple

\* "Add user group +" is rendered when isMultipleGroups and the last flat
\* item is a member.
AddGroupShown(value, multiple) ==
    /\ multiple
    /\ Len(value) > 0
    /\ Len(value[Len(value)]) > 0

\* A click on "Add user group +".
AddUserGroup ==
    /\ AddGroupShown(userGroups, isMultipleGroups)
    /\ Len(userGroups) < MaxGroups
    /\ Apply("addGroup", "", -1, handleAddUserGroup(userGroups))

EngineNext ==
    \/ \E pk \in Users \cup {""} : UserAdd(pk)
    \/ \E index \in FlatIndices(userGroups) : DeleteUser(index)
    \/ AddUserGroup

EngineSpec == EngineInit /\ [][EngineNext]_vars

\* EditSpec: the same component, edited from the list the form starts
\* with, useState([[]]).
EditInit ==
    /\ userGroups = << <<>> >>
    /\ isMultipleGroups \in BOOLEAN
    /\ lastOp = NoOp
    /\ prevOp = NoOp
    /\ FormIdle
    /\ SideIdle

EditSpec == EditInit /\ [][EngineNext]_vars

-----------------------------------------------------------------------------
(* UserGroups.tsx: the drag and drop reorder over the flat sequence *)

\* The separator that opens group i of the flat sequence.
Separator(i) == [type |-> "group", key |-> <<"group", i>>, data |-> "Group"]

\* The flat item of member j of group i.
Member(i, j, pk) == [type |-> "item", key |-> <<"item", i, j>>, data |-> pk]

\* toPlainArray(value): for each group in order, its separator and then its
\* members in order.
RECURSIVE toPlainArrayFrom(_, _)
toPlainArrayFrom(value, i) ==
    IF i > Len(value) THEN <<>>
    ELSE <<Separator(i)>>
         \o [j \in 1..Len(value[i]) |-> Member(i, j, value[i][j])]
         \o toPlainArrayFrom(value, i + 1)

toPlainArray(value) == toPlainArrayFrom(value, 1)

\* fromPlainArray(items, createNewGroup): a separator opens a group; a member
\* joins the group open last, or opens one when none is open; with
\* createNewGroup the last item opens a group of its own.  Groups left
\* without a member are kept.
RECURSIVE fromPlainArrayLoop(_, _, _, _)
fromPlainArrayLoop(items, createNewGroup, n, groups) ==
    IF n > Len(items) THEN groups
    ELSE LET item == items[n]
             opens == \/ item.type # "item"
                      \/ Len(groups) = 0
                      \/ createNewGroup /\ n = Len(items)
             opened == IF opens THEN Append(groups, <<>>) ELSE groups
             joined == IF item.type = "item"
                       THEN [opened EXCEPT ![Len(opened)] = Append(@, item.data)]
                       ELSE opened
         IN fromPlainArrayLoop(items, createNewGroup, n + 1, joined)

fromPlainArray(items, createNewGroup) ==
    fromPlainArrayLoop(items, createNewGroup, 1, <<>>)

\* array.splice(index, 0, item), indices from 0: an index past the end
\* inserts at the end.
InsertAt(array, index, item) ==
    LET at == IF index > Len(array) THEN Len(array) ELSE index
    IN SubSeq(array, 1, at) \o <<item>> \o SubSeq(array, at + 1, Len(array))

\* arrayMoveImmutable(array, fromIndex, toIndex), indices from 0: a copy in
\* which the item at fromIndex stands at toIndex; a negative index counts
\* from the end; a fromIndex outside the array moves nothing.
arrayMoveImmutable(array, fromIndex, toIndex) ==
    LET startIndex == IF fromIndex < 0 THEN Len(array) + fromIndex ELSE fromIndex
        endIndex == IF toIndex < 0 THEN Len(array) + toIndex ELSE toIndex
    IN IF startIndex >= 0 /\ startIndex < Len(array)
       THEN InsertAt(RemoveAt(array, startIndex + 1),
                     IF endIndex < 0 THEN 0 ELSE endIndex,
                     array[startIndex + 1])
       ELSE array

\* Not the handler: the moved item is taken out and not put back.
SortDropsMovedItem(value, oldIndex, newIndex) ==
    LET items == toPlainArray(value)
    IN Change(fromPlainArray(
           IF oldIndex >= 0 /\ oldIndex < Len(items)
           THEN RemoveAt(items, oldIndex + 1) ELSE items,
           newIndex > Len(items)))

\* Not the handler: the groups left without a member are filtered out.
SortPrunesEmptyGroups(value, oldIndex, newIndex) ==
    LET items == toPlainArray(value)
        newPlainArray == arrayMoveImmutable(items, oldIndex, newIndex)
    IN Change(FilterEmpty(fromPlainArray(newPlainArray, newIndex > Len(items))))

\* onSortEnd({ oldIndex, newIndex })
onSortEnd(value, oldIndex, newIndex) ==
    LET items == toPlainArray(value)
        newPlainArray == arrayMoveImmutable(items, oldIndex, newIndex)
    IN Change(fromPlainArray(newPlainArray, newIndex > Len(items)))

\* The indices a drag may start at and a drop may end at: every position of
\* the flat sequence, and for the drop also the position of the "Add user
\* group +" row, items.length + 1.
OldIndices(value) == 0 .. FlatLength(value) - 1

NewIndices(value) == 0 .. FlatLength(value) + 1

\* The end of a drag, applied once to each list drawn.
SortEnd(oldIndex, newIndex) ==
    LET result == onSortEnd(userGroups, oldIndex, newIndex)
    IN /\ lastOp = NoOp
       /\ userGroups' = result.value
       /\ lastOp' = [Record("sort", "", oldIndex, userGroups, result)
                         EXCEPT !.to = newIndex]
       /\ UNCHANGED <<isMultipleGroups, prevOp, formVars, sideVars>>

SortNext ==
    \E oldIndex \in OldIndices(userGroups) :
        \E newIndex \in NewIndices(userGroups) : SortEnd(oldIndex, newIndex)

SortSpec == EngineInit /\ [][SortNext]_vars

-----------------------------------------------------------------------------
(* ScheduleOverrideForm.tsx: props, state and the params memo *)

\* useDebouncedCallback(updatePreview, 200)
Debounce == 200

\* The clock advances in quarters of the debounce delay.
Step == Debounce \div 4

\* The shiftMoment prop, in hours.
shiftMoment == 0

\* The currentTimezone prop.
currentTimezone == "UTC"

\* The moments the two DateTimePickers hand over.
Moments == {shiftMoment + 24 * d : d \in 0..MaxDays}

\* shift is undefined: the store holds no shift under shiftId.
NoShift == [gen |-> 0]

\* No timeout is pending.
NoTimer == <<>>

\* getUTCString(moment, timezone), kept as the application it is: the form
\* only passes its result on.
getUTCString(moment, timezone) ==
    [fn |-> "getUTCString", moment |-> moment, timezone |-> timezone]

\* getDateTime(string, timezone): the moment a stored UTC string stands for.
getDateTime(string, timezone) == string.moment

\* The memo of lines 123-132, for given state.
paramsOf(start, end, groups) ==
    [rotation_start |-> getUTCString(start, currentTimezone),
     shift_start    |-> getUTCString(start, currentTimezone),
     shift_end      |-> getUTCString(end, currentTimezone),
     rolling_users  |-> groups,
     frequency      |-> "null"]

\* The params object of the current render.
params == paramsOf(shiftStart, shiftEnd, userGroups)

\* The shift the store holds for an existing override, as loaded the
\* gen-th time.
StoredShift(gen) ==
    [gen           |-> gen,
     shift_start   |-> getUTCString(shiftMoment + 24, currentTimezone),
     shift_end     |-> getUTCString(shiftMoment + 48, currentTimezone),
     rolling_users |-> << <<"u2">> >>]

-----------------------------------------------------------------------------
(* The preview request and its debounce *)

\* The requests that have been issued and not answered.
InFlight == {id \in 1..Len(requests) : requests[id].status = "inflight"}

\* The log after store.scheduleStore.updateRotationPreview(..., p) is called
\* from a render whose params object is the version-th one.  History: when
\* the request resolves, stale records whether p differed from the params of
\* that moment; when it fails, seen records how many params objects there
\* were by then.
Issue(log, p, version, origin) ==
    Append(log, [version |-> version, params |-> p, origin |-> origin,
                 at |-> now, status |-> "inflight", seen |-> 0,
                 stale |-> FALSE])

\* The debounced callback called from the render whose params object is the
\* version-th one: the pending timeout is cleared and a new one started,
\* which will call that render's updatePreview.
debouncedCallback(p, version) ==
    [deadline |-> now + Debounce, version |-> version, params |-> p]

\* A slip: the timeout already pending is kept (a leading-edge timer).
KeepPendingTimer(p, version) ==
    IF timer # NoTimer THEN timer
    ELSE [deadline |-> now + Debounce, version |-> version, params |-> p]

\* A slip: useDebouncedCallback(updatePreview, 100).
HalfTheDelay(p, version) ==
    [deadline |-> now + Debounce \div 2, version |-> version, params |-> p]

\* const handleChange = useDebouncedCallback(updatePreview, 200)
handleChange(p, version) == debouncedCallback(p, version)

\* A timeout whose delay has passed runs before anything that arrives at
\* that instant.
TimerDue == timer # NoTimer /\ now >= timer.deadline

\* A render that produced a new params object p, and its effect
\* useEffect(handleChange, [params]).
ParamsEffect(p) ==
    /\ changes' = Append(changes, now)
    /\ timer' = handleChange(p, Len(changes) + 1)

\* setUserGroups, setShiftStart or setShiftEnd with a new value, the render
\* that follows and its effects.
Rerender(start, end, groups) ==
    /\ shiftStart' = start
    /\ shiftEnd' = end
    /\ userGroups' = groups
    /\ ParamsEffect(paramsOf(start, end, groups))

-----------------------------------------------------------------------------
(* Spec: one ScheduleOverrideForm *)

Init ==
    /\ userGroups = << <<>> >>
    /\ isMultipleGroups = FALSE
    /\ lastOp = NoOp
    /\ prevOp = NoOp
    /\ mounted = FALSE
    /\ shiftId \in {"new", "existing"}
    /\ shiftStart = shiftMoment
    /\ shiftEnd = shiftMoment + 24
    /\ isOpen = FALSE
    /\ shift \in IF shiftId = "new" THEN {NoShift} ELSE {NoShift, StoredShift(1)}
    /\ now = 0
    /\ timer = NoTimer
    /\ changes = <<>>
    /\ requests = <<>>
    /\ displayed = 0
    /\ SideIdle

\* Not the form: the [] effect of lines 163-167 is missing.
MountWithoutPreview ==
    /\ ~mounted
    /\ mounted' = TRUE
    /\ LET hydrated == shift # NoShift
           start    == IF hydrated THEN getDateTime(shift.shift_start, currentTimezone)
                       ELSE shiftStart
           end      == IF hydrated THEN getDateTime(shift.shift_end, currentTimezone)
                       ELSE shiftEnd
           groups   == IF hydrated THEN shift.rolling_users ELSE userGroups
       IN /\ shiftStart' = start
          /\ shiftEnd' = end
          /\ userGroups' = groups
          /\ changes' = IF hydrated THEN <<now, now>> ELSE <<now>>
          /\ timer' = IF hydrated
                      THEN handleChange(paramsOf(start, end, groups), 2)
                      ELSE handleChange(params, 1)
    /\ UNCHANGED <<sideVars, isMultipleGroups, lastOp, prevOp, shiftId, isOpen, shift,
                   now, displayed, requests>>

\* The effects of the first render, in their order: the [shiftId] effect
\* asks the store to load the shift; the [shift] effect sets the state from
\* a shift the store already holds; the [] effect calls updatePreview for a
\* new override; the [params] effect calls handleChange.  The state set by
\* the [shift] effect gives a second render with a new params object.
Mount ==
    /\ ~mounted
    /\ mounted' = TRUE
    /\ LET first    == params
           hydrated == shift # NoShift
           start    == IF hydrated THEN getDateTime(shift.shift_start, currentTimezone)
                       ELSE shiftStart
           end      == IF hydrated THEN getDateTime(shift.shift_end, currentTimezone)
                       ELSE shiftEnd
           groups   == IF hydrated THEN shift.rolling_users ELSE userGroups
       IN /\ requests' = IF shiftId = "new"
                         THEN Issue(requests, first, 1, "mount")
                         ELSE requests
          /\ shiftStart' = start
          /\ shiftEnd' = end
          /\ userGroups' = groups
          /\ changes' = IF hydrated THEN <<now, now>> ELSE <<now>>
          /\ timer' = IF hydrated
                      THEN handleChange(paramsOf(start, end, groups), 2)
                      ELSE handleChange(first, 1)
    /\ UNCHANGED <<sideVars, isMultipleGroups, lastOp, prevOp, shiftId, isOpen, shift,
                   now, displayed>>

CanChange ==
    /\ mounted
    /\ ~TimerDue
    /\ Len(changes) < MaxChanges
    /\ now + Debounce <= MaxTicks * Step

\* An onChange call of the UserGroups component: setUserGroups when it ran,
\* nothing when it did not.
OnChange(result) ==
    /\ IF result.called
       THEN Rerender(shiftStart, shiftEnd, result.value)
       ELSE UNCHANGED <<shiftStart, shiftEnd, userGroups, changes, timer>>
    /\ UNCHANGED <<sideVars, isMultipleGroups, lastOp, prevOp, mounted, shiftId, isOpen,
                   shift, now, requests, displayed>>

FormUserAdd(pk) ==
    /\ CanChange
    /\ Len(Concat(userGroups)) < MaxFormMembers
    /\ OnChange(handleUserAdd(userGroups, pk))

FormDeleteUser(index) ==
    /\ CanChange
    /\ OnChange(handleDeleteUser(userGroups, index))

\* <DateTimePicker date={shiftStart} onChange={setShiftStart} />
SetShiftStart(moment) ==
    /\ CanChange
    /\ Rerender(moment, shiftEnd, userGroups)
    /\ UNCHANGED <<sideVars, isMultipleGroups, lastOp, prevOp, mounted, shiftId, isOpen,
                   shift, now, requests, displayed>>

\* <DateTimePicker date={shiftEnd} onChange={setShiftEnd} />
SetShiftEnd(moment) ==
    /\ CanChange
    /\ Rerender(shiftStart, moment, userGroups)
    /\ UNCHANGED <<sideVars, isMultipleGroups, lastOp, prevOp, mounted, shiftId, isOpen,
                   shift, now, requests, displayed>>

\* store.scheduleStore.updateOncallShift(shiftId), asked for at mount,
\* puts a new shift object into the store; the render that follows runs
\* the [shift] effect, which sets the three states from it.
ShiftLoaded ==
    /\ CanChange
    /\ shiftId # "new"
    /\ shift.gen < 2
    /\ shift' = StoredShift(2)
    /\ Rerender(getDateTime(shift'.shift_start, currentTimezone),
                getDateTime(shift'.shift_end, currentTimezone),
                shift'.rolling_users)
    /\ UNCHANGED <<sideVars, isMultipleGroups, lastOp, prevOp, mounted, shiftId, isOpen,
                   now, requests, displayed>>

\* updatePreview, lines 169-175, called from the render whose params object
\* is the version-th one.
updatePreview(p, version, origin) ==
    requests' = Issue(requests, p, version, origin)

\* Not the hook: the timeout runs out and the callback is not called.
TimerNeverCalls ==
    /\ TimerDue
    /\ timer' = NoTimer
    /\ UNCHANGED <<sideVars, engineVars, mounted, shiftId, shiftStart, shiftEnd, isOpen,
                   shift, now, changes, displayed, requests>>

\* The timeout started by handleChange runs out and calls updatePreview.
TimerElapses ==
    /\ TimerDue
    /\ updatePreview(timer.params, timer.version, "timer")
    /\ timer' = NoTimer
    /\ UNCHANGED <<sideVars, engineVars, mounted, shiftId, shiftStart, shiftEnd, isOpen,
                   shift, now, changes, displayed>>

\* Not the form: the promise resolves and nothing is chained to it.
PreviewResolvesUnseen(id) ==
    /\ id \in InFlight
    /\ requests' = [requests EXCEPT ![id].status = "resolved",
                                    ![id].stale = (requests[id].params # params)]
    /\ displayed' = id
    /\ UNCHANGED <<sideVars, engineVars, mounted, shiftId, shiftStart, shiftEnd, shift,
                   now, timer, changes, isOpen>>

\* The promise of updateRotationPreview resolves: .then(() => setIsOpen(true)).
PreviewResolves(id) ==
    /\ id \in InFlight
    /\ requests' = [requests EXCEPT ![id].status = "resolved",
                                    ![id].stale = (requests[id].params # params)]
    /\ isOpen' = TRUE
    /\ displayed' = id
    /\ UNCHANGED <<sideVars, engineVars, mounted, shiftId, shiftStart, shiftEnd, shift,
                   now, timer, changes>>

\* A slip: .then(ok, ok), a rejection opens the form too.
PreviewFailsOpens(id) ==
    /\ id \in InFlight
    /\ requests' = [requests EXCEPT ![id].status = "failed",
                                    ![id].seen = Len(changes)]
    /\ isOpen' = TRUE
    /\ UNCHANGED <<sideVars, engineVars, mounted, shiftId, shiftStart, shiftEnd, shift,
                   now, timer, changes, displayed>>

\* The promise of updateRotationPreview rejects: the chain has no handler
\* for it.
PreviewFails(id) ==
    /\ id \in InFlight
    /\ requests' = [requests EXCEPT ![id].status = "failed",
                                    ![id].seen = Len(changes)]
    /\ UNCHANGED <<sideVars, engineVars, mounted, shiftId, shiftStart, shiftEnd, isOpen,
                   shift, now, timer, changes, displayed>>

\* Time passes, up to the moment the pending timeout is due.
Tick ==
    /\ mounted
    /\ now + Step <= MaxTicks * Step
    /\ IF timer = NoTimer THEN TRUE ELSE now + Step <= timer.deadline
    /\ now' = now + Step
    /\ UNCHANGED <<sideVars, engineVars, mounted, shiftId, shiftStart, shiftEnd, isOpen,
                   shift, timer, changes, requests, displayed>>

Next ==
    \/ Mount
    \/ \E pk \in FormUsers \cup {""} : FormUserAdd(pk)
    \/ \E index \in 0..FlatLength(userGroups) : FormDeleteUser(index)
    \/ \E moment \in Moments : SetShiftStart(moment)
    \/ \E moment \in Moments : SetShiftEnd(moment)
    \/ ShiftLoaded
    \/ TimerElapses
    \/ \E id \in 1..Len(requests) : PreviewResolves(id)
    \/ \E id \in 1..Len(requests) : PreviewFails(id)
    \/ Tick

Spec == Init /\ [][Next]_vars

-----------------------------------------------------------------------------
(* LiveSpec: the form under a fair scheduler *)

\* The form from mount to an open Modal: the shift arrives, the user picks
\* users, time passes, previews are asked for and arrive or fail.
LiveNext ==
    \/ Mount
    \/ \E pk \in FormUsers : FormUserAdd(pk)
    \/ ShiftLoaded
    \/ Tick
    \/ TimerElapses
    \/ \E id \in 1..Len(requests) : PreviewResolves(id)
    \/ \E id \in 1..Len(requests) : PreviewFails(id)

\* The effects of the first render run, time passes, a due timeout runs its
\* callback, and a request in flight is not left in flight for ever: it
\* resolves unless it fails.
Fairness ==
    /\ WF_vars(Mount)
    /\ WF_vars(Tick)
    /\ WF_vars(TimerElapses)
    /\ \A id \in 1..(MaxChanges + 1) : WF_vars(PreviewResolves(id))

LiveSpec == Init /\ [][LiveNext]_vars /\ Fairness

-----------------------------------------------------------------------------
(* PersistSpec: the form with its Create/Update button and its delete icon *)

\* A call of the store as it starts, with the timer and the preview
\* requests as they stood (history).
StoreCall(fn, id, p) ==
    [fn |-> fn, id |-> id, params |-> p, status |-> "inflight",
     callbacks |-> <<>>, pending |-> timer # NoTimer,
     inflight |-> Cardinality(InFlight)]

\* Not the handler: createRotation whatever the shiftId.
CreateWhateverShiftId(id, p) == StoreCall("createRotation", id, p)

\* handleCreate: the call it makes, for the shiftId and params of its render.
handleCreate(id, p) ==
    IF id = "new"
    THEN StoreCall("createRotation", id, p)
    ELSE StoreCall("updateRotation", id, p)

\* handleDeleteClick: the call it makes.
handleDeleteClick(id) == StoreCall("deleteOncallShift", id, <<>>)

\* The callbacks in the .then of each call, in their order.
ThenOf(fn) ==
    IF fn = "createRotation" THEN <<"onCreate">>
    ELSE IF fn = "updateRotation" THEN <<"onUpdate">>
    ELSE <<"onHide", "onDelete">>

\* The buttons are children of the Modal and rendered while it is open.
CanClick == mounted /\ isOpen /\ Len(calls) < MaxSubmits

\* A click on Create or Update.
Submit ==
    /\ CanClick
    /\ calls' = Append(calls, handleCreate(shiftId, params))
    /\ UNCHANGED <<engineVars, formVars, heap, current, captured>>

\* A confirmed click on the delete icon, rendered unless shiftId is 'new'.
DeleteClick ==
    /\ CanClick
    /\ shiftId # "new"
    /\ calls' = Append(calls, handleDeleteClick(shiftId))
    /\ UNCHANGED <<engineVars, formVars, heap, current, captured>>

\* The promise of a store call resolves and its .then runs.
CallResolves(n) ==
    /\ calls[n].status = "inflight"
    /\ calls' = [calls EXCEPT ![n].status = "resolved",
                              ![n].callbacks = ThenOf(calls[n].fn)]
    /\ UNCHANGED <<engineVars, formVars, heap, current, captured>>

\* The promise of a store call rejects: no handler is chained for it.
CallFails(n) ==
    /\ calls[n].status = "inflight"
    /\ calls' = [calls EXCEPT ![n].status = "failed"]
    /\ UNCHANGED <<engineVars, formVars, heap, current, captured>>

\* The form as far as the buttons are concerned: it mounts, the shift
\* arrives, the user picks users, time passes, previews are asked for and
\* arrive or fail, and the buttons are clicked.
PersistNext ==
    \/ LiveNext
    \/ Submit
    \/ DeleteClick
    \/ \E n \in 1..Len(calls) : CallResolves(n)
    \/ \E n \in 1..Len(calls) : CallFails(n)

PersistSpec == Init /\ [][PersistNext]_vars

-----------------------------------------------------------------------------
(* HeapSpec: the handlers over the arrays themselves.  A group list is an  *)
(* array of references to group arrays; userGroups is what it reads as.     *)

\* What an array of references reads as.
Deref(h, groups) == [n \in 1..Len(groups) |-> h[groups[n]]]

\* A value as handed out, with what it read as at that moment.
Capture(h, groups) == [groups |-> groups, contents |-> Deref(h, groups)]

\* The values the form starts from: useState([[]]), or the rolling_users
\* of the stored shift after setUserGroups(shift.rolling_users).
InitialValues == {<< <<>> >>, StoredShift(1).rolling_users}

HeapInit ==
    /\ userGroups \in InitialValues
    /\ isMultipleGroups \in BOOLEAN
    /\ lastOp = NoOp
    /\ prevOp = NoOp
    /\ FormIdle
    /\ calls = <<>>
    /\ heap = userGroups
    /\ current = [n \in 1..Len(userGroups) |-> n]
    /\ captured = <<Capture(heap, current)>>

\* onChange(groups): the new value is handed to the parent, which keeps it
\* in state and in the params built from it.
HeapOnChange(op, pk, index, to, h, groups) ==
    /\ Len(captured) <= MaxOps
    /\ Len(h) <= MaxArrays
    /\ heap' = h
    /\ current' = groups
    /\ captured' = Append(captured, Capture(h, groups))
    /\ userGroups' = Deref(h, groups)
    /\ lastOp' = [op |-> op, pk |-> pk, index |-> index, to |-> to,
                  before |-> userGroups, called |-> TRUE,
                  after |-> Deref(h, groups)]
    /\ UNCHANGED <<isMultipleGroups, prevOp, formVars, calls>>

\* handleUserAdd(pk): newGroups is a copy of the outer array only, and
\* lastGroup.push(pk) appends to the group array it shares with value.
HeapUserAdd(pk) ==
    /\ ~Falsy(pk)
    /\ Len(Concat(userGroups)) < MaxMembers
    /\ LET allocated == IF Len(current) = 0 THEN Append(heap, <<>>) ELSE heap
           newGroups == IF Len(current) = 0 THEN <<Len(allocated)>> ELSE current
           lastGroup == newGroups[Len(newGroups)]
           pushed == [allocated EXCEPT ![lastGroup] = Append(@, pk)]
       IN HeapOnChange("add", pk, -1, -1, pushed, newGroups)

\* handleAddUserGroup: [...value, []]
HeapAddUserGroup ==
    /\ AddGroupShown(userGroups, isMultipleGroups)
    /\ Len(userGroups) < MaxGroups
    /\ HeapOnChange("addGroup", "", -1, -1,
                    Append(heap, <<>>), Append(current, Len(heap) + 1))

\* handleDeleteUser(index) at a member: newGroups[i] is replaced by the
\* array filter returns, and the outer filter returns a new outer array.
HeapDeleteUser(index) ==
    \E i \in 1..Len(current) : \E j \in 1..Len(heap[current[i]]) :
        /\ FlatIndexOf(userGroups, i, j) = index
        /\ LET filtered == Append(heap, RemoveAt(heap[current[i]], j))
               newGroups == [current EXCEPT ![i] = Len(filtered)]
           IN HeapOnChange("delete", "", index, -1, filtered,
                  SelectSeq(newGroups, LAMBDA r : HasLength(filtered[r])))

\* onSortEnd: fromPlainArray builds every group array anew.
HeapSortEnd(oldIndex, newIndex) ==
    LET result == onSortEnd(userGroups, oldIndex, newIndex)
    IN HeapOnChange("sort", "", oldIndex, newIndex, heap \o result.value,
           [n \in 1..Len(result.value) |-> Len(heap) + n])

HeapNext ==
    \/ \E pk \in Users : HeapUserAdd(pk)
    \/ HeapAddUserGroup
    \/ \E index \in 0..FlatLength(userGroups) : HeapDeleteUser(index)
    \/ \E oldIndex \in OldIndices(userGroups) :
           \E newIndex \in NewIndices(userGroups) :
               HeapSortEnd(oldIndex, newIndex)

HeapSpec == HeapInit /\ [][HeapNext]_vars

-----------------------------------------------------------------------------
(* Properties of the handlers, under EngineSpec *)

\* The groups of a list that hold a member, in order.
RECURSIVE WithoutEmptyGroups(_)
WithoutEmptyGroups(value) ==
    IF Len(value) = 0 THEN <<>>
    ELSE IF Len(Head(value)) = 0 THEN WithoutEmptyGroups(Tail(value))
         ELSE <<Head(value)>> \o WithoutEmptyGroups(Tail(value))

\* How often x occurs among the members of a list.
Occurrences(value, x) ==
    Cardinality({n \in 1..Len(Concat(value)) : Concat(value)[n] = x})

\* The last flat index at which x stands in a list that holds x.
LastFlatIndexOf(value, x) ==
    CHOOSE n \in 0..FlatLength(value) :
        /\ \E i \in 1..Len(value) : \E j \in 1..Len(value[i]) :
               FlatIndexOf(value, i, j) = n /\ value[i][j] = x
        /\ \A i \in 1..Len(value) : \A j \in 1..Len(value[i]) :
               value[i][j] = x => FlatIndexOf(value, i, j) <= n

\* C7: a delete at a flat index that designates a member calls onChange
\* with the list in which exactly that occurrence is gone from its own
\* group, every other member is in its group and in its order, and no group
\* is empty.
C7_DeleteRemovesThatMember ==
    (lastOp.op = "delete" /\ IsMemberIndex(lastOp.before, lastOp.index)) =>
        \E i \in 1..Len(lastOp.before) : \E j \in 1..Len(lastOp.before[i]) :
            /\ FlatIndexOf(lastOp.before, i, j) = lastOp.index
            /\ lastOp.called
            /\ userGroups = lastOp.after
            /\ lastOp.after = WithoutEmptyGroups(
                   [lastOp.before EXCEPT ![i] = RemoveAt(@, j)])
            /\ Concat(lastOp.after) =
                   RemoveAt(Concat(lastOp.before),
                            Len(Concat(SubSeq(lastOp.before, 1, i - 1))) + j)
            /\ \A h \in 1..Len(lastOp.after) : Len(lastOp.after[h]) > 0

\* C7, its case: [[u1,u2],[u3]] with the index of u1 gave [[u2],[u3]].
C7_Witness ==
    /\ lastOp.op = "delete"
    /\ lastOp.before = << <<"u1", "u2">>, <<"u3">> >>
    /\ lastOp.index = 1
    /\ userGroups = << <<"u2">>, <<"u3">> >>

\* C8: a delete at an index that is negative, at or past the flat length,
\* or that designates a separator does not call onChange and leaves the
\* list, its empty groups included, as it was.
C8_DeleteOutOfRangeIsNoOp ==
    (lastOp.op = "delete" /\ ~IsMemberIndex(lastOp.before, lastOp.index)) =>
        /\ ~lastOp.called
        /\ lastOp.after = lastOp.before
        /\ userGroups = lastOp.before

\* C8, its case: a delete at the separator of a second group, in a list
\* that holds an empty group, has been asked for.
C8_Witness ==
    /\ lastOp.op = "delete"
    /\ Len(lastOp.before) = 2
    /\ Len(lastOp.before[1]) = 0
    /\ Len(lastOp.before[2]) > 0
    /\ lastOp.index = 1
    /\ userGroups = lastOp.before

\* C9: an add of a non-empty pk appends it to the last group and changes
\* nothing else; with no group it makes the one group [pk]; an add of an
\* empty pk does not call onChange.  A pk already present is added again.
C9_AddAppendsToLastGroup ==
    (lastOp.op = "add") =>
        /\ userGroups = lastOp.after
        /\ (lastOp.pk = "") => (~lastOp.called /\ lastOp.after = lastOp.before)
        /\ (lastOp.pk # "" /\ Len(lastOp.before) = 0) =>
               (lastOp.called /\ lastOp.after = << <<lastOp.pk>> >>)
        /\ (lastOp.pk # "" /\ Len(lastOp.before) > 0) =>
               /\ lastOp.called
               /\ Len(lastOp.after) = Len(lastOp.before)
               /\ \A h \in 1..Len(lastOp.before) - 1 :
                      lastOp.after[h] = lastOp.before[h]
               /\ lastOp.after[Len(lastOp.after)] =
                      Append(lastOp.before[Len(lastOp.before)], lastOp.pk)
               /\ Occurrences(lastOp.after, lastOp.pk) =
                      Occurrences(lastOp.before, lastOp.pk) + 1

\* C9, its case: a pk the first of two groups already held has been added
\* and now stands twice in the list.
C9_Witness ==
    /\ lastOp.op = "add"
    /\ lastOp.pk # ""
    /\ Len(lastOp.before) = 2
    /\ Occurrences(<<lastOp.before[1]>>, lastOp.pk) = 1
    /\ Occurrences(userGroups, lastOp.pk) = 2

\* C10: an add of a non-empty pk x followed by the delete at the last flat
\* index holding x leaves the list the add started from, without its empty
\* groups.
C10_AddThenDeleteRestores ==
    (/\ prevOp.op = "add"
     /\ prevOp.pk # ""
     /\ lastOp.op = "delete"
     /\ Occurrences(lastOp.before, prevOp.pk) > 0
     /\ lastOp.index = LastFlatIndexOf(lastOp.before, prevOp.pk)) =>
        /\ lastOp.before = prevOp.after
        /\ lastOp.after = WithoutEmptyGroups(prevOp.before)
        /\ userGroups = lastOp.after

\* C10, its case: the add started from a list with an empty group, so the
\* list the delete left differs from it by that group.
C10_Witness ==
    /\ prevOp.op = "add"
    /\ prevOp.pk # ""
    /\ lastOp.op = "delete"
    /\ lastOp.index = LastFlatIndexOf(lastOp.before, prevOp.pk)
    /\ lastOp.called
    /\ Len(prevOp.before) = 2
    /\ Len(prevOp.before[1]) = 0
    /\ Occurrences(prevOp.before, prevOp.pk) = 1
    /\ userGroups = <<prevOp.before[2]>>

-----------------------------------------------------------------------------
(* Properties of the preview requests, under Spec *)

Ids == 1..Len(requests)

TimerRequests == {id \in Ids : requests[id].origin = "timer"}

\* C1: the .then callback never runs for a request whose params differ
\* from the params current when its answer arrives.
C1_NoSettleForStaleResult ==
    \A id \in Ids : requests[id].status = "resolved" => ~requests[id].stale

\* C2: at most one preview request is in flight.
C2_AtMostOneInFlight == Cardinality(InFlight) <= 1

\* The change that ends a run of changes less than Debounce apart.
ClosesBurst(i) ==
    i = Len(changes) \/ changes[i + 1] - changes[i] >= Debounce

\* The changes whose timeout has run out.
ElapsedBursts ==
    {i \in 1..Len(changes) :
        ClosesBurst(i) /\ (i < Len(changes) \/ timer = NoTimer)}

C4_NeverDisplaysOlderResult ==
    displayed # 0 =>
        \A id \in Ids : requests[id].status = "resolved" =>
            requests[id].version <= requests[displayed].version

\* C5: a step in which the timeout runs out issues exactly one request, and
\* that request carries the params current in that step.
C5_TimerRequestCarriesCurrentParams ==
    [][(timer # NoTimer /\ timer' = NoTimer) =>
          /\ Len(requests') = Len(requests) + 1
          /\ requests'[Len(requests')].origin = "timer"
          /\ requests'[Len(requests')].status = "inflight"
          /\ requests'[Len(requests')].params = params
          /\ requests'[Len(requests')].version = Len(changes)
          /\ \A id \in Ids : requests'[id] = requests[id]]_vars

\* C5, its case: a debounced request was issued for the second of two
\* changes made at different times within the delay, with a member in its
\* group list.
C5_Witness ==
    /\ Len(changes) >= 2
    /\ changes[1] < changes[2]
    /\ changes[2] - changes[1] < Debounce
    /\ \E id \in TimerRequests :
           /\ requests[id].version = 2
           /\ Len(Concat(requests[id].params.rolling_users)) > 0

\* C6: a step in which a request fails changes neither isOpen nor the group
\* list, the shift start, the shift end or the timeout; and once a request
\* has failed, a change still starts a timeout for the new params and the
\* timeout running out still issues a request.
C6_FailureChangesNothing ==
    [][/\ (\E id \in Ids : requests[id].status = "inflight"
                        /\ requests'[id].status = "failed") =>
              UNCHANGED <<isOpen, userGroups, shiftStart, shiftEnd, timer,
                          displayed, changes>>
       /\ ((\E id \in Ids : requests[id].status = "failed")
              /\ Len(changes') > Len(changes)) =>
              timer' = [deadline |-> now + Debounce,
                        version  |-> Len(changes'),
                        params   |-> params']
       /\ ((\E id \in Ids : requests[id].status = "failed")
              /\ timer # NoTimer /\ timer' = NoTimer) =>
              /\ Len(requests') = Len(requests) + 1
              /\ requests'[Len(requests')].status = "inflight"
              /\ requests'[Len(requests')].params = timer.params]_vars

\* C6, its case: a request failed, the form stayed closed, and a request
\* for a change made after the failure has been issued.
C6_Witness ==
    \E f, r \in Ids :
        /\ requests[f].status = "failed"
        /\ ~isOpen
        /\ requests[r].origin = "timer"
        /\ requests[r].version > requests[f].seen

-----------------------------------------------------------------------------
(* Properties of the reorder, under SortSpec *)

C13_SortKeepsEveryMember ==
    (lastOp.op = "sort") =>
        /\ lastOp.called
        /\ userGroups = lastOp.after
        /\ Len(Concat(lastOp.after)) = Len(Concat(lastOp.before))
        /\ \A x \in Users :
               Occurrences(lastOp.after, x) = Occurrences(lastOp.before, x)

\* C13, its cases: the separator of the second group of [[u1],[u1,u2]] has
\* been moved past the end, and a member of a list holding it twice has
\* been moved past the end.
C13_Witness ==
    /\ lastOp.op = "sort"
    /\ lastOp.before = << <<"u1">>, <<"u1", "u2">> >>
    /\ lastOp.index = 2
    /\ lastOp.to = FlatLength(lastOp.before) + 1
    /\ Occurrences(userGroups, "u1") = 2
    /\ Occurrences(userGroups, "u2") = 1

\* C14: a reorder of a flat item to its own index gives the list it
\* started from, its empty groups included.
C14_SortToOwnIndexIsNoOp ==
    (lastOp.op = "sort" /\ lastOp.to = lastOp.index) =>
        /\ lastOp.after = lastOp.before
        /\ userGroups = lastOp.before

\* C14, its case: a member of a list whose last group is empty has been
\* moved to its own index, and the empty group is still there.
C14_Witness ==
    /\ lastOp.op = "sort"
    /\ lastOp.to = lastOp.index
    /\ IsMemberIndex(lastOp.before, lastOp.index)
    /\ Len(lastOp.before) = 2
    /\ Len(lastOp.before[2]) = 0
    /\ Len(userGroups) = 2
    /\ Len(userGroups[2]) = 0

-----------------------------------------------------------------------------
(* Properties of the arrays, under HeapSpec *)

\* The arrays read as the value the handlers of EngineSpec compute.
HeapReadsAsValue ==
    /\ userGroups = Deref(heap, current)
    /\ (lastOp.op = "add") =>
           userGroups = handleUserAdd(lastOp.before, lastOp.pk).value
    /\ (lastOp.op = "delete") =>
           userGroups = handleDeleteUser(lastOp.before, lastOp.index).value
    /\ (lastOp.op = "addGroup") =>
           userGroups = handleAddUserGroup(lastOp.before).value

\* C11: every group list handed out earlier, the initial or hydrated one
\* included, still reads as it did when it was handed out, whatever add,
\* add-group, delete or reorder has run since.
C11_CapturedValuesKeepContents ==
    \A n \in 1..Len(captured) :
        Deref(heap, captured[n].groups) = captured[n].contents

-----------------------------------------------------------------------------
(* Properties of the form state, under Spec *)

\* C15: once the form is open, a step changes the group list only to what
\* handleUserAdd or handleDeleteUser gives for it, and a step in which the
\* store's shift object changes leaves the group list, the shift start and
\* the shift end as the user has them.
C15_OpenFormKeepsEdits ==
    [][isOpen =>
          /\ (userGroups' # userGroups) =>
                 \/ \E pk \in FormUsers :
                        userGroups' = handleUserAdd(userGroups, pk).value
                 \/ \E index \in 0..FlatLength(userGroups) :
                        userGroups' = handleDeleteUser(userGroups, index).value
          /\ (shift' # shift) =>
                 UNCHANGED <<userGroups, shiftStart, shiftEnd>>]_vars

-----------------------------------------------------------------------------
(* Properties of the store calls, under PersistSpec *)

\* C16: a step that adds a store call adds exactly one, in flight and with
\* no callback run: for a submit createRotation when shiftId is 'new' and
\* updateRotation otherwise, with the params of that moment; delete only
\* when shiftId is not 'new'.  The step touches neither the timer nor the
\* preview requests, whatever their state.  A call's callbacks have run
\* only if it resolved, and then they are onCreate, onUpdate, or onHide
\* followed by onDelete.
C16_SubmitCallsStoreOnce ==
    [][/\ (calls' # calls /\ Len(calls') # Len(calls)) =>
              /\ Len(calls') = Len(calls) + 1
              /\ SubSeq(calls', 1, Len(calls)) = calls
              /\ LET call == calls'[Len(calls')]
                 IN /\ call.status = "inflight"
                    /\ call.callbacks = <<>>
                    /\ call.id = shiftId
                    /\ \/ /\ call.fn = "deleteOncallShift"
                          /\ shiftId # "new"
                       \/ /\ call.fn = (IF shiftId = "new" THEN "createRotation"
                                        ELSE "updateRotation")
                          /\ call.params = params
              /\ UNCHANGED <<timer, requests, isOpen, userGroups>>
       /\ \A n \in 1..Len(calls') :
              /\ (calls'[n].callbacks # <<>>) => calls'[n].status = "resolved"
              /\ (calls'[n].status = "resolved") =>
                     calls'[n].callbacks = ThenOf(calls'[n].fn)]_vars

\* C16, its case: Create was clicked for a new override while a timeout
\* was pending and a preview request was in flight, with an edited group
\* list in its params, and the call has resolved and run onCreate.
C16_Witness ==
    \E n \in 1..Len(calls) :
        /\ calls[n].fn = "createRotation"
        /\ calls[n].pending
        /\ calls[n].inflight > 0
        /\ calls[n].params.rolling_users = << <<"u1">> >>
        /\ calls[n].status = "resolved"
        /\ calls[n].callbacks = <<"onCreate">>

-----------------------------------------------------------------------------
(* Properties of the edited list, under EditSpec *)

\* The positions of the groups without a member.
EmptyGroups(value) == {n \in 1..Len(value) : Len(value[n]) = 0}

\* C17: in a list edited from [[]] by adds, deletes and clicks on the
\* rendered "Add user group +", at most one group is empty and it is the
\* last one; right after a delete that called onChange no group is empty.
C17_OnlyLastGroupMayBeEmpty ==
    /\ Cardinality(EmptyGroups(userGroups)) <= 1
    /\ \A n \in EmptyGroups(userGroups) : n = Len(userGroups)
    /\ (lastOp.op = "delete" /\ lastOp.called) => EmptyGroups(userGroups) = {}

\* C17, its case: a group was added after a member, and the delete of that
\* member then left no group at all.
C17_Witness ==
    /\ prevOp.op = "addGroup"
    /\ lastOp.op = "delete"
    /\ lastOp.called
    /\ Len(lastOp.before) = 2
    /\ EmptyGroups(lastOp.before) = {2}
    /\ userGroups = <<>>

-----------------------------------------------------------------------------
(* Properties of isOpen, under PersistSpec *)

\* The preview requests that have resolved.
Resolved == {id \in 1..Len(requests) : requests[id].status = "resolved"}

\* C18: isOpen is false at the start and is true exactly when some preview
\* request has resolved; a step sets it only by resolving a preview
\* request, so not an edit, a timer running out, a failed preview or a
\* store call; once true it stays true.
C18_OpenIffSomePreviewResolved ==
    /\ [](isOpen <=> Resolved # {})
    /\ [][/\ isOpen => isOpen'
          /\ (~isOpen /\ isOpen') =>
                 /\ \E id \in InFlight : requests'[id].status = "resolved"
                 /\ UNCHANGED <<userGroups, timer, calls>>]_vars

\* C18, its case: a preview request failed, the user edited, a later
\* request resolved and opened the form, and a store call then failed
\* with the form still open.
C18_Witness ==
    /\ isOpen
    /\ \E id \in 1..Len(requests) : requests[id].status = "failed"
    /\ Cardinality(Resolved) = 1
    /\ Len(changes) > 1
    /\ \E n \in 1..Len(calls) : calls[n].status = "failed"

-----------------------------------------------------------------------------
(* Properties of the first requests, under Spec *)

\* The params of the first render of a new override.
InitialParams == paramsOf(shiftMoment, shiftMoment + 24, << <<>> >>)

\* C19: a new override issues a preview request for the initial params at
\* mount, and with no edit a second one for the same params when the
\* debounce delay has passed, and no more; an existing shift issues no
\* request at mount, and each of its requests is issued by the timer, at
\* least the debounce delay after mount.
C19_FirstRequests ==
    /\ (mounted /\ shiftId = "new") =>
           /\ Len(requests) >= 1
           /\ requests[1].origin = "mount"
           /\ requests[1].at = 0
           /\ requests[1].params = InitialParams
           /\ (Len(changes) = 1 /\ now < Debounce) => Len(requests) = 1
           /\ (Len(changes) = 1 /\ now >= Debounce /\ timer = NoTimer) =>
                  /\ Len(requests) = 2
                  /\ requests[2].origin = "timer"
                  /\ requests[2].at = Debounce
                  /\ requests[2].params = InitialParams
    /\ (shiftId # "new") =>
           /\ (now < Debounce) => requests = <<>>
           /\ \A id \in 1..Len(requests) :
                  /\ requests[id].origin = "timer"
                  /\ requests[id].at >= Debounce

\* C19, its case: a new override, never edited, has issued its two
\* requests for the initial params and the clock has moved on.
C19_Witness ==
    /\ shiftId = "new"
    /\ Len(changes) = 1
    /\ now > Debounce
    /\ Len(requests) = 2
    /\ requests[1].params = requests[2].params
    /\ requests[1].at = 0
    /\ requests[2].at = Debounce

-----------------------------------------------------------------------------
(* Properties of the form under LiveSpec *)

\* C20: for a new override and for an existing shift, if no preview
\* request ever fails, the form is eventually open; and as long as no
\* preview request has resolved, all having failed or none having been
\* answered, the form is not open.
C20_OpensWhenPreviewsSucceed ==
    /\ ([](\A id \in 1..Len(requests) : requests[id].status # "failed"))
           => <>isOpen
    /\ []((\A id \in 1..Len(requests) : requests[id].status # "resolved")
           => ~isOpen)

\* C20, its case: the form of an existing shift was edited, the shift
\* arrived, the timer ran out after this last change, and the one request,
\* issued for the params now on screen, resolved and opened the form.
C20_Witness ==
    /\ shiftId = "existing"
    /\ isOpen
    /\ Len(changes) = MaxChanges
    /\ Len(requests) = 1
    /\ requests[1].origin = "timer"
    /\ requests[1].params = params
    /\ requests[1].status = "resolved"

=============================================================================
